---- MODULE Spec2Model ----
(***************************************************************************)
(* Model of the cloud-environment attack-surface server:                   *)
(*   src/server.py  index construction, the attack and stats handlers      *)
(*   src/utils.py   StatRecorder, the call counter wrapped around attack   *)
(*                                                                         *)
(* The process starts in __main__ (server.py:142-145): it loads the        *)
(* environment document, builds vm_id_to_attackers and then serves         *)
(* requests on threads.  load_cloud_environment is also registered with    *)
(* @app.before_first_request, so the first request runs it a second time   *)
(* while every other request waits for it.  The document on disk is taken  *)
(* not to change while the process lives.                                  *)
(***************************************************************************)
EXTENDS Integers, Sequences, FiniteSets, TLC

\* ------------------------------------------------------------------ bounds
NumVMs == 2          \* at most this many VMs in a document
MaxTags == 1         \* at most this many entries in a VM's tag list
MaxRules == 1        \* at most this many firewall rules
NumThreads == 2      \* request threads of the server
MaxCalls == 2        \* requests made by one client thread
MaxDuration == 2     \* a call's measured time is in 1..MaxDuration

VMNames == <<"vm1", "vm2", "vm3", "vm4", "vm5">>
Tags == {"x", "y"}
Durations == 1..MaxDuration
Threads == 1..NumThreads

\* who runs load_cloud_environment: __main__, a request thread, or nobody
MainLoader == 0
NoLoader == -1

\* request.args.get('vm_id') when the request has no vm_id (None)
NoVmId == "None"

\* _recorded_methods has no entry for the method
NoObj == 0

\* ------------------------------------------------------- python containers
\* {} and defaultdict(set): a function whose domain is the set of keys
EmptyMap == [k \in {} |-> {}]

\* d[k] on a defaultdict(set), value only
DictGet(m, k) == IF k \in DOMAIN m THEN m[k] ELSE {}

\* d[k] on a defaultdict(set): a missing key is inserted with set()
DictTouch(m, k) == IF k \in DOMAIN m THEN m ELSE m @@ (k :> {})

\* d[k].add(v) on a defaultdict(set)
DictAdd(m, k, v) ==
    IF k \in DOMAIN m THEN [m EXCEPT ![k] = @ \cup {v}] ELSE m @@ (k :> {v})

\* d[k] = v on a dict
DictPut(m, k, v) ==
    IF k \in DOMAIN m THEN [m EXCEPT ![k] = v] ELSE m @@ (k :> v)

\* the order in which python walks a set: fixed for a given set
RECURSIVE SeqOfSet(_)
SeqOfSet(S) ==
    IF S = {} THEN <<>>
    ELSE LET e == CHOOSE x \in S : TRUE IN <<e>> \o SeqOfSet(S \ {e})

Range(s) == {s[i] : i \in 1..Len(s)}

SeqsUpTo(S, n) == UNION {[1..k -> S] : k \in 0..n}

\* ------------------------------------------------------------- documents
\* A json object that lacks a key has has_<key> = FALSE.
MkVM(id, tags) ==
    [has_vm_id |-> TRUE, vm_id |-> id, has_tags |-> TRUE, tags |-> tags]

MkRule(s, d) ==
    [has_source_tag |-> TRUE, source_tag |-> s,
     has_dest_tag |-> TRUE, dest_tag |-> d]

MkDoc(vms, rules) ==
    [readable |-> TRUE, has_vms |-> TRUE, vms |-> vms,
     has_fw_rules |-> TRUE, fw_rules |-> rules]

TagLists == SeqsUpTo(Tags, MaxTags)

RuleLists == SeqsUpTo({MkRule(s, d) : s \in Tags, d \in Tags}, MaxRules)

\* documents with every key present; vm ids are unique
WellFormedDocs ==
    {MkDoc([i \in 1..Len(ts) |-> MkVM(VMNames[i], ts[i])], rs) :
        ts \in SeqsUpTo(TagLists, NumVMs), rs \in RuleLists}

\* a file that is missing, unreadable or not json
UnreadableDoc ==
    [readable |-> FALSE, has_vms |-> FALSE, vms |-> <<>>,
     has_fw_rules |-> FALSE, fw_rules |-> <<>>]

\* valid json with one required key removed
MalformedOf(d) ==
    {[d EXCEPT !.has_vms = FALSE], [d EXCEPT !.has_fw_rules = FALSE]}
    \cup {[d EXCEPT !.vms[i].has_vm_id = FALSE] : i \in 1..Len(d.vms)}
    \cup {[d EXCEPT !.vms[i].has_tags = FALSE] : i \in 1..Len(d.vms)}
    \cup {[d EXCEPT !.fw_rules[j].has_source_tag = FALSE] : j \in 1..Len(d.fw_rules)}
    \cup {[d EXCEPT !.fw_rules[j].has_dest_tag = FALSE] : j \in 1..Len(d.fw_rules)}

\* malformed documents are taken from the documents with one-entry tag lists
MalformedDocs ==
    UNION {MalformedOf(d) :
        d \in {w \in WellFormedDocs : \A i \in 1..Len(w.vms) : Len(w.vms[i].tags) <= 1}}

BuildDocs == WellFormedDocs \cup MalformedDocs \cup {UnreadableDoc}

IsWellFormed(d) ==
    /\ d.readable /\ d.has_vms /\ d.has_fw_rules
    /\ \A i \in 1..Len(d.vms) : d.vms[i].has_vm_id /\ d.vms[i].has_tags
    /\ \A j \in 1..Len(d.fw_rules) :
          d.fw_rules[j].has_source_tag /\ d.fw_rules[j].has_dest_tag

\* the documents the concurrent scenarios run on
ServeDocs ==
    {MkDoc(<<MkVM("vm1", <<"x">>), MkVM("vm2", <<"y">>)>>, <<MkRule("x", "y")>>),
     UnreadableDoc,
     [MkDoc(<<>>, <<>>) EXCEPT !.has_fw_rules = FALSE],
     MkDoc(<<MkVM("vm1", <<>>), [MkVM("vm2", <<>>) EXCEPT !.has_vm_id = FALSE]>>, <<>>)}

\* ------------------------------------------------ parse_environment_json
\* server.py:60-61 for one vm: for tag in vm['tags']: tag_to_vm_ids[tag].add(vm['vm_id'])
RECURSIVE AddVmTags(_, _, _)
AddVmTags(m, vm, tags) ==
    IF tags = <<>> THEN [err |-> FALSE, map |-> m]
    ELSE IF ~vm.has_vm_id THEN [err |-> TRUE, map |-> m]
    ELSE AddVmTags(DictAdd(m, Head(tags), vm.vm_id), vm, Tail(tags))

\* server.py:59-61: the loop over environment_json['vms']
RECURSIVE ScanVms(_, _)
ScanVms(m, vms) ==
    IF vms = <<>> THEN [err |-> FALSE, map |-> m]
    ELSE IF ~Head(vms).has_tags THEN [err |-> TRUE, map |-> m]
    ELSE LET r == AddVmTags(m, Head(vms), Head(vms).tags)
         IN  IF r.err THEN r ELSE ScanVms(r.map, Tail(vms))

\* variant of AddRule with the two tags of a rule exchanged
AddRuleReversed(m, rule) == DictAdd(m, rule.source_tag, rule.dest_tag)

\* server.py:63: dest_tag_to_source_tags[fw_rule['dest_tag']].add(fw_rule['source_tag'])
AddRule(m, rule) == DictAdd(m, rule.dest_tag, rule.source_tag)

\* server.py:62-63: the loop over environment_json['fw_rules']
RECURSIVE ScanRules(_, _)
ScanRules(m, rules) ==
    IF rules = <<>> THEN [err |-> FALSE, map |-> m]
    ELSE IF ~(Head(rules).has_dest_tag /\ Head(rules).has_source_tag)
         THEN [err |-> TRUE, map |-> m]
    ELSE ScanRules(AddRule(m, Head(rules)), Tail(rules))

\* server.py:53-63: the two helper dictionaries, or KeyError
BuildTagIndexes(d) ==
    IF ~(d.has_vms /\ d.has_fw_rules)
    THEN [err |-> TRUE, tag_to_vm_ids |-> EmptyMap, dest_tag_to_source_tags |-> EmptyMap]
    ELSE LET v == ScanVms(EmptyMap, d.vms)
             r == ScanRules(EmptyMap, d.fw_rules)
         IN  [err |-> v.err \/ r.err,
              tag_to_vm_ids |-> v.map,
              dest_tag_to_source_tags |-> r.map]

\* server.py:32-34: threatening_source_tags += dest_tag_to_source_tags[tag]
RECURSIVE ThreateningSourceTags(_, _)
ThreateningSourceTags(d2s, tags) ==
    IF tags = <<>> THEN <<>>
    ELSE SeqOfSet(DictGet(d2s, Head(tags))) \o ThreateningSourceTags(d2s, Tail(tags))

\* server.py:34: reading the defaultdict inserts the tags that had no rule
RECURSIVE TouchTags(_, _)
TouchTags(d2s, tags) ==
    IF tags = <<>> THEN d2s ELSE TouchTags(DictTouch(d2s, Head(tags)), Tail(tags))

\* variant of ResetEntry that rebinds the whole dictionary:
\* vm_id_to_attackers = {vm['vm_id']: set()}
ResetEntryRebind(index, id) == (id :> {})

\* server.py:36: vm_id_to_attackers[vm['vm_id']] = set()
ResetEntry(index, id) == DictPut(index, id, {})

\* variant of UpdateEntry that also passes the index itself to update(),
\* which adds the keys the index holds at that moment
UpdateEntryWithKeys(index, id, t2v, tag) ==
    [index EXCEPT ![id] = @ \cup DictGet(t2v, tag) \cup DOMAIN index]

\* server.py:39: vm_id_to_attackers[vm['vm_id']].update(tag_to_vm_ids[tag])
UpdateEntry(index, id, t2v, tag) ==
    [index EXCEPT ![id] = @ \cup DictGet(t2v, tag)]

\* ------------------------------------------------------------------ state
VARIABLES
    doc,                 \* the environment document on disk
    clients,             \* the threads that send requests in this scenario
    quota,               \* the requests each client sends in this scenario
    proc,                \* "starting", "serving", "exited" (exit()), "crashed" (uncaught)
    error,               \* the exception that ended the load, or "none"
    vm_id_to_attackers,  \* server.py:10, the global index
    ld,                  \* the running load_cloud_environment call and its locals
    got_first_request,   \* the before_first_request hook has run
    recorded,            \* StatRecorder._recorded_methods['attack']: a stats dict, or NoObj
    objs,                \* the stats dicts, named by the thread that created them
    th,                  \* per request thread: position in its handler and its locals
    init_index,          \* history: the index when __main__ finished loading
    n_calls,             \* history: attack calls that have ended, either way
    n_ok,                \* history: attack calls that found their vm_id
    counted_time,        \* history: sum of the times of the calls counted so far
    overlapped,          \* history: two attack calls have been in flight together
    last,                \* history: the latest answer of attack
    stats_resp           \* history: the latest answer of stats

vars == <<doc, clients, quota, proc, error, vm_id_to_attackers, ld, got_first_request,
          recorded, objs, th, init_index, n_calls, n_ok, counted_time,
          overlapped, last, stats_resp>>

NoLoad ==
    [who |-> NoLoader, pc |-> "none", i |-> 0, lst |-> <<>>,
     t2v |-> EmptyMap, d2s |-> EmptyMap]

StartLoad(who) == [NoLoad EXCEPT !.who = who, !.pc = "extract"]

IdleThread(calls) == [pc |-> "idle", calls |-> calls, mt |-> 0, tmp |-> 0, obj |-> NoObj]

NoAnswer == [asked |-> FALSE, vm_id |-> NoVmId, found |-> FALSE, threatening_vms |-> <<>>]

NoStats == [asked |-> FALSE, vm_count |-> 0, request_count |-> 0,
            na |-> TRUE, total |-> 0]

InitWith(docs, cl, k) ==
    /\ doc \in docs
    /\ clients = cl
    /\ quota = k
    /\ proc = "starting"
    /\ error = "none"
    /\ vm_id_to_attackers = EmptyMap
    /\ ld = StartLoad(MainLoader)
    /\ got_first_request = FALSE
    /\ recorded = NoObj
    /\ objs = [t \in Threads |-> [method_count |-> 0, total_method_time |-> 0]]
    /\ th = [t \in Threads |-> IdleThread(0)]
    /\ init_index = EmptyMap
    /\ n_calls = 0
    /\ n_ok = 0
    /\ counted_time = 0
    /\ overlapped = FALSE
    /\ last = NoAnswer
    /\ stats_resp = NoStats

\* M threads x K calls: every thread is a client; a few documents
Init == InitWith(ServeDocs, Threads, MaxCalls)

\* every thread is a client and sends one request; a few documents
InitOnce == InitWith(ServeDocs, Threads, 1)

\* one client sending one request; every document within the bounds
InitBuild == InitWith(BuildDocs, {1}, 1)

serverVars == <<got_first_request, recorded, objs, th, n_calls, n_ok,
                counted_time, overlapped, last, stats_resp>>

\* ------------------------------------------------ load_cloud_environment
\* server.py:77-81: the file opens and parses as json
ExtractOk ==
    /\ ld.pc = "extract"
    /\ doc.readable
    /\ ld' = [ld EXCEPT !.pc = "parse"]
    /\ UNCHANGED <<doc, clients, quota, proc, error, vm_id_to_attackers, init_index, serverVars>>

\* server.py:83-84, 94-96: IOError or JSONDecodeError becomes
\* EnvironmentJsonFileError, which load_cloud_environment logs before exit()
ExtractFail ==
    /\ ld.pc = "extract"
    /\ ~doc.readable
    /\ error' = "EnvironmentJsonFileError"
    /\ proc' = "exited"
    /\ ld' = NoLoad
    /\ UNCHANGED <<doc, clients, quota, vm_id_to_attackers, init_index, serverVars>>

\* server.py:53-63: both helper dictionaries are built
ParseOk ==
    /\ ld.pc = "parse"
    /\ LET r == BuildTagIndexes(doc)
       IN  /\ ~r.err
           /\ ld' = [ld EXCEPT !.pc = "vm", !.i = 1, !.lst = <<>>,
                               !.t2v = r.tag_to_vm_ids,
                               !.d2s = r.dest_tag_to_source_tags]
    /\ UNCHANGED <<doc, clients, quota, proc, error, vm_id_to_attackers, init_index, serverVars>>

\* server.py:53-63: a missing key raises KeyError, which nothing catches
ParseFail ==
    /\ ld.pc = "parse"
    /\ BuildTagIndexes(doc).err
    /\ error' = "KeyError"
    /\ proc' = "crashed"
    /\ ld' = NoLoad
    /\ UNCHANGED <<doc, clients, quota, vm_id_to_attackers, init_index, serverVars>>

\* server.py:31-36: the next vm; its source tags are collected and its entry reset
PopulateReset ==
    /\ ld.pc = "vm"
    /\ ld.i <= Len(doc.vms)
    /\ LET vm == doc.vms[ld.i]
       IN  /\ vm.has_tags /\ vm.has_vm_id
           /\ LET threat == ThreateningSourceTags(ld.d2s, vm.tags)
              IN  /\ vm_id_to_attackers' = ResetEntry(vm_id_to_attackers, vm.vm_id)
                  /\ ld' = [ld EXCEPT !.d2s = TouchTags(@, vm.tags),
                                      !.lst = threat,
                                      !.pc = IF threat = <<>> THEN "vm" ELSE "fill",
                                      !.i = IF threat = <<>> THEN @ + 1 ELSE @]
    /\ UNCHANGED <<doc, clients, quota, proc, error, init_index, serverVars>>

\* server.py:33, 36: vm['tags'] or vm['vm_id'] raises KeyError part-way through
PopulateFail ==
    /\ ld.pc = "vm"
    /\ ld.i <= Len(doc.vms)
    /\ ~(doc.vms[ld.i].has_tags /\ doc.vms[ld.i].has_vm_id)
    /\ error' = "KeyError"
    /\ proc' = "crashed"
    /\ ld' = NoLoad
    /\ UNCHANGED <<doc, clients, quota, vm_id_to_attackers, init_index, serverVars>>

\* server.py:38-39: one threatening source tag is folded into the vm's entry
PopulateUpdate ==
    /\ ld.pc = "fill"
    /\ vm_id_to_attackers' =
          UpdateEntry(vm_id_to_attackers, doc.vms[ld.i].vm_id, ld.t2v, Head(ld.lst))
    /\ ld' = [ld EXCEPT !.lst = Tail(@),
                        !.pc = IF Tail(ld.lst) = <<>> THEN "vm" ELSE "fill",
                        !.i = IF Tail(ld.lst) = <<>> THEN @ + 1 ELSE @]
    /\ UNCHANGED <<doc, clients, quota, proc, error, init_index, serverVars>>

\* server.py:144-145: load_cloud_environment() returns in __main__; app.run()
MainServe ==
    /\ ld.who = MainLoader
    /\ ld.pc = "vm"
    /\ ld.i > Len(doc.vms)
    /\ proc' = "serving"
    /\ init_index' = vm_id_to_attackers
    /\ ld' = NoLoad
    /\ UNCHANGED <<doc, clients, quota, error, vm_id_to_attackers, serverVars>>

\* server.py:87-88: the hook returns; the request that ran it goes on to its handler
HookReturn ==
    /\ ld.who \in Threads
    /\ ld.pc = "vm"
    /\ ld.i > Len(doc.vms)
    /\ got_first_request' = TRUE
    /\ th' = [th EXCEPT ![ld.who].pc = IF @ = "hook_attack" THEN "w18" ELSE "s41"]
    /\ ld' = NoLoad
    /\ UNCHANGED <<doc, clients, quota, proc, error, vm_id_to_attackers, init_index,
                   recorded, objs, n_calls, n_ok, counted_time, overlapped,
                   last, stats_resp>>

\* ---------------------------------------------------------------- requests
\* the vm_id a request may carry: every vm name in use, one that no document
\* has, and no vm_id at all
QueryIds == {VMNames[i] : i \in 1..(NumVMs + 1)} \cup {NoVmId}

InAttack(t) ==
    th[t].pc \in {"hook_attack", "w18", "w19", "call", "w25r", "w25w", "w26r", "w26w"}

\* variant of BeforeFirstRequest in which a request that arrives while the
\* hook runs does not wait for it
BeforeFirstRequestNoWait(t, handler) ==
    \/ /\ got_first_request
       /\ th' = [th EXCEPT ![t].pc = handler]
       /\ ld' = ld
    \/ /\ ~got_first_request
       /\ ld.who = NoLoader
       /\ th' = [th EXCEPT ![t].pc = IF handler = "w18" THEN "hook_attack" ELSE "hook_stats"]
       /\ ld' = StartLoad(t)
    \/ /\ ~got_first_request
       /\ ld.who # NoLoader
       /\ th' = [th EXCEPT ![t].pc = handler]
       /\ ld' = ld

\* server.py:87 @app.before_first_request: the first request runs the hook
\* before its handler; a request that arrives while the hook runs waits for it
BeforeFirstRequest(t, handler) ==
    \/ /\ got_first_request
       /\ th' = [th EXCEPT ![t].pc = handler]
       /\ ld' = ld
    \/ /\ ~got_first_request
       /\ ld.who = NoLoader
       /\ th' = [th EXCEPT ![t].pc = IF handler = "w18" THEN "hook_attack" ELSE "hook_stats"]
       /\ ld' = StartLoad(t)

\* server.py:99-101: a request for /api/v1/attack arrives on thread t
StartAttack(t) ==
    /\ proc = "serving"
    /\ t \in clients
    /\ th[t].pc = "idle"
    /\ th[t].calls < quota
    /\ BeforeFirstRequest(t, "w18")
    /\ overlapped' = (overlapped \/ \E u \in Threads \ {t} : InAttack(u))
    /\ UNCHANGED <<doc, clients, quota, proc, error, vm_id_to_attackers, init_index,
                   got_first_request, recorded, objs, n_calls, n_ok,
                   counted_time, last, stats_resp>>

\* server.py:119-120: a request for /api/v1/stats arrives on thread t
StartStats(t) ==
    /\ proc = "serving"
    /\ t \in clients
    /\ th[t].pc = "idle"
    /\ th[t].calls < quota
    /\ BeforeFirstRequest(t, "s41")
    /\ UNCHANGED <<doc, clients, quota, proc, error, vm_id_to_attackers, init_index,
                   got_first_request, recorded, objs, n_calls, n_ok,
                   counted_time, overlapped, last, stats_resp>>

\* utils.py:18: if func.__name__ not in StatRecorder._recorded_methods
W18(t) ==
    /\ th[t].pc = "w18"
    /\ th' = [th EXCEPT ![t].pc = IF recorded = NoObj THEN "w19" ELSE "call"]
    /\ UNCHANGED <<doc, clients, quota, proc, error, vm_id_to_attackers, ld, init_index,
                   got_first_request, recorded, objs, n_calls, n_ok,
                   counted_time, overlapped, last, stats_resp>>

\* utils.py:19: a fresh {'method_count': 0, 'total_method_time': 0} is stored
W19(t) ==
    /\ th[t].pc = "w19"
    /\ objs' = [objs EXCEPT ![t] = [method_count |-> 0, total_method_time |-> 0]]
    /\ recorded' = t
    /\ th' = [th EXCEPT ![t].pc = "call"]
    /\ UNCHANGED <<doc, clients, quota, proc, error, vm_id_to_attackers, ld, init_index,
                   got_first_request, n_calls, n_ok, counted_time, overlapped,
                   last, stats_resp>>

\* utils.py:20-23, server.py:107-116: attack finds vm_id and returns the
\* stringified list; the wrapper measures the call
CallFound(t) ==
    /\ th[t].pc = "call"
    /\ \E v \in QueryIds, mt \in Durations :
          /\ v \in DOMAIN vm_id_to_attackers
          /\ last' = [asked |-> TRUE, vm_id |-> v, found |-> TRUE,
                      threatening_vms |-> SeqOfSet(vm_id_to_attackers[v])]
          /\ th' = [th EXCEPT ![t].pc = "w25r", ![t].mt = mt]
    /\ n_ok' = n_ok + 1
    /\ UNCHANGED <<doc, clients, quota, proc, error, vm_id_to_attackers, ld, init_index,
                   got_first_request, recorded, objs, n_calls, counted_time,
                   overlapped, stats_resp>>

\* variant of CallNotFound that looks up with a default,
\* vm_id_to_attackers.get(vm_id, set()), and so answers an empty list
CallNotFoundDefault(t) ==
    /\ th[t].pc = "call"
    /\ \E v \in QueryIds, mt \in Durations :
          /\ v \notin DOMAIN vm_id_to_attackers
          /\ last' = [asked |-> TRUE, vm_id |-> v, found |-> TRUE,
                      threatening_vms |-> <<>>]
          /\ th' = [th EXCEPT ![t].pc = "w25r", ![t].mt = mt]
    /\ n_ok' = n_ok + 1
    /\ UNCHANGED <<doc, clients, quota, proc, error, vm_id_to_attackers, ld, init_index,
                   got_first_request, recorded, objs, n_calls, counted_time,
                   overlapped, stats_resp>>

\* variant of CallNotFound in which the wrapper records in a finally block:
\* the failed call goes on to utils.py:22-26 before the exception leaves
CallNotFoundFinally(t) ==
    /\ th[t].pc = "call"
    /\ \E v \in QueryIds, mt \in Durations :
          /\ v \notin DOMAIN vm_id_to_attackers
          /\ last' = [asked |-> TRUE, vm_id |-> v, found |-> FALSE,
                      threatening_vms |-> <<>>]
          /\ th' = [th EXCEPT ![t].pc = "w25r", ![t].mt = mt]
    /\ UNCHANGED <<doc, clients, quota, proc, error, vm_id_to_attackers, ld, init_index,
                   got_first_request, recorded, objs, n_calls, n_ok, counted_time,
                   overlapped, stats_resp>>

\* utils.py:21, server.py:107-113: KeyError, abort(Response('Vm_id not found.'));
\* the exception leaves the wrapper before utils.py:22-27
CallNotFound(t) ==
    /\ th[t].pc = "call"
    /\ \E v \in QueryIds :
          /\ v \notin DOMAIN vm_id_to_attackers
          /\ last' = [asked |-> TRUE, vm_id |-> v, found |-> FALSE,
                      threatening_vms |-> <<>>]
    /\ th' = [th EXCEPT ![t] = IdleThread(th[t].calls + 1)]
    /\ n_calls' = n_calls + 1
    /\ UNCHANGED <<doc, clients, quota, proc, error, vm_id_to_attackers, ld, init_index,
                   got_first_request, recorded, objs, n_ok, counted_time,
                   overlapped, stats_resp>>

\* utils.py:25, first half: the stats dict is fetched and method_count read
W25R(t) ==
    /\ th[t].pc = "w25r"
    /\ th' = [th EXCEPT ![t].pc = "w25w", ![t].obj = recorded,
                        ![t].tmp = objs[recorded].method_count]
    /\ UNCHANGED <<doc, clients, quota, proc, error, vm_id_to_attackers, ld, init_index,
                   got_first_request, recorded, objs, n_calls, n_ok,
                   counted_time, overlapped, last, stats_resp>>

\* utils.py:25, second half: method_count + 1 is stored into the fetched dict
W25W(t) ==
    /\ th[t].pc = "w25w"
    /\ objs' = [objs EXCEPT ![th[t].obj].method_count = th[t].tmp + 1]
    /\ counted_time' = counted_time + th[t].mt
    /\ th' = [th EXCEPT ![t].pc = "w26r", ![t].obj = NoObj, ![t].tmp = 0]
    /\ UNCHANGED <<doc, clients, quota, proc, error, vm_id_to_attackers, ld, init_index,
                   got_first_request, recorded, n_calls, n_ok, overlapped,
                   last, stats_resp>>

\* utils.py:26, first half: the stats dict is fetched and total_method_time read
W26R(t) ==
    /\ th[t].pc = "w26r"
    /\ th' = [th EXCEPT ![t].pc = "w26w", ![t].obj = recorded,
                        ![t].tmp = objs[recorded].total_method_time]
    /\ UNCHANGED <<doc, clients, quota, proc, error, vm_id_to_attackers, ld, init_index,
                   got_first_request, recorded, objs, n_calls, n_ok,
                   counted_time, overlapped, last, stats_resp>>

\* utils.py:26-27: total_method_time + method_time is stored; the wrapper returns
W26W(t) ==
    /\ th[t].pc = "w26w"
    /\ objs' = [objs EXCEPT ![th[t].obj].total_method_time = th[t].tmp + th[t].mt]
    /\ th' = [th EXCEPT ![t] = IdleThread(th[t].calls + 1)]
    /\ n_calls' = n_calls + 1
    /\ UNCHANGED <<doc, clients, quota, proc, error, vm_id_to_attackers, ld, init_index,
                   got_first_request, recorded, n_ok, counted_time, overlapped,
                   last, stats_resp>>

\* server.py:132-136: the stats answer; the average is total / request_count,
\* or 'N/A' (na) when request_count is 0
StatsResponse(count, total) ==
    [asked |-> TRUE, vm_count |-> Cardinality(DOMAIN vm_id_to_attackers),
     request_count |-> count, na |-> (count = 0), total |-> total]

\* utils.py:39-45, server.py:128-139: no entry yet, KeyError, {0, 0}
S41Empty(t) ==
    /\ th[t].pc = "s41"
    /\ recorded = NoObj
    /\ stats_resp' = StatsResponse(0, 0)
    /\ th' = [th EXCEPT ![t] = IdleThread(th[t].calls + 1)]
    /\ UNCHANGED <<doc, clients, quota, proc, error, vm_id_to_attackers, ld, init_index,
                   got_first_request, recorded, objs, n_calls, n_ok,
                   counted_time, overlapped, last>>

\* utils.py:41: method_count is read
S41(t) ==
    /\ th[t].pc = "s41"
    /\ recorded # NoObj
    /\ th' = [th EXCEPT ![t].pc = "s42", ![t].tmp = objs[recorded].method_count]
    /\ UNCHANGED <<doc, clients, quota, proc, error, vm_id_to_attackers, ld, init_index,
                   got_first_request, recorded, objs, n_calls, n_ok,
                   counted_time, overlapped, last, stats_resp>>

\* utils.py:42, server.py:129-139: total_method_time is read; stats answers
S42(t) ==
    /\ th[t].pc = "s42"
    /\ stats_resp' = StatsResponse(th[t].tmp, objs[recorded].total_method_time)
    /\ th' = [th EXCEPT ![t] = IdleThread(th[t].calls + 1)]
    /\ UNCHANGED <<doc, clients, quota, proc, error, vm_id_to_attackers, ld, init_index,
                   got_first_request, recorded, objs, n_calls, n_ok,
                   counted_time, overlapped, last>>

\* ------------------------------------------------------------ specification
Load ==
    \/ ExtractOk \/ ExtractFail \/ ParseOk \/ ParseFail
    \/ PopulateReset \/ PopulateFail \/ PopulateUpdate
    \/ MainServe \/ HookReturn

Serve(t) ==
    \/ StartAttack(t) \/ StartStats(t)
    \/ W18(t) \/ W19(t) \/ CallFound(t) \/ CallNotFound(t)
    \/ W25R(t) \/ W25W(t) \/ W26R(t) \/ W26W(t)
    \/ S41Empty(t) \/ S41(t) \/ S42(t)

Next == Load \/ \E t \in Threads : Serve(t)

Spec == Init /\ [][Next]_vars

SpecOnce == InitOnce /\ [][Next]_vars

\* The steps of a server that gets a single request: get_method_stats can
\* only find the entry missing (utils.py:44-45), since no attack call came
\* before it, so utils.py:41-42 are not among them.
ServeOne(t) ==
    \/ StartAttack(t) \/ StartStats(t)
    \/ W18(t) \/ W19(t) \/ CallFound(t) \/ CallNotFound(t)
    \/ W25R(t) \/ W25W(t) \/ W26R(t) \/ W26W(t)
    \/ S41Empty(t)

NextBuild == Load \/ \E t \in Threads : ServeOne(t)

SpecBuild == InitBuild /\ [][NextBuild]_vars

\* ------------------------------------------------------------------ claims
\* utils.py:39-45: what get_method_stats('attack') returns
get_method_stats ==
    IF recorded = NoObj THEN [method_count |-> 0, total_method_time |-> 0]
    ELSE objs[recorded]

VmIds(d) == {d.vms[i].vm_id : i \in 1..Len(d.vms)}

\* the attackers of vm v of document d, as the specification words them:
\* the vms w with a tag s such that a rule (s, t) exists for a tag t of v
ExpectedAttackers(d, v) ==
    {w.vm_id : w \in {x \in Range(d.vms) :
        \E s \in Range(x.tags), t \in Range(v.tags) :
            \E j \in 1..Len(d.fw_rules) :
                d.fw_rules[j].source_tag = s /\ d.fw_rules[j].dest_tag = t}}

\* no load is running and the process serves
BuildDone == proc = "serving" /\ ld.who = NoLoader

\* no attack call is in flight
Quiet == \A t \in Threads : ~InAttack(t)

C2_NotFoundDistinct ==
    last.asked =>
        /\ last.found <=> last.vm_id \in DOMAIN vm_id_to_attackers
        /\ last.found =>
              last.threatening_vms = SeqOfSet(vm_id_to_attackers[last.vm_id])
        /\ ~last.found => last.threatening_vms = <<>>

\* C2 witness: a request without vm_id was answered NotFound by a server
\* whose index holds a vm with no attackers
C2_Witness ==
    /\ last.asked /\ ~last.found /\ last.vm_id = NoVmId
    /\ \E k \in DOMAIN vm_id_to_attackers : vm_id_to_attackers[k] = {}

\* C3 as stated: after N attack calls made one at a time, found or not, the
\* recorded request count is N.
C3_CountsEveryCall ==
    (~overlapped /\ Quiet) => get_method_stats.method_count = n_calls

\* C3 amended: after N attack calls made one at a time, the recorded request
\* count is the number of those calls that found their vm_id; a NotFound call
\* leaves the counters as they were.
C3_CountsFoundCalls ==
    (~overlapped /\ Quiet) => get_method_stats.method_count = n_ok

\* C3 witness: calls made one at a time, some found and some not
C3_Witness ==
    /\ ~overlapped /\ Quiet
    /\ n_ok >= 1 /\ n_calls > n_ok
    /\ get_method_stats.method_count = n_ok

\* C4: when every one of M threads has made its K attack calls and all of
\* them found their vm_id, the recorded request count is M x K.
C4_NoLostIncrement ==
    (/\ \A t \in Threads : th[t].pc = "idle" /\ th[t].calls = MaxCalls
     /\ n_ok = NumThreads * MaxCalls)
        => get_method_stats.method_count = NumThreads * MaxCalls

\* C5: once the index is built its keys are exactly the vm ids of the
\* document, every id inside an attacker set is a key, and the vm_count that
\* stats answers is the number of vms.
C5_KeysAreVms ==
    /\ BuildDone =>
          /\ DOMAIN vm_id_to_attackers = VmIds(doc)
          /\ \A k \in DOMAIN vm_id_to_attackers :
                vm_id_to_attackers[k] \subseteq DOMAIN vm_id_to_attackers
    /\ stats_resp.asked => stats_resp.vm_count = Len(doc.vms)

\* C5 witness: stats has answered for an index of two vms, one of them with
\* no attackers
C5_Witness ==
    /\ BuildDone /\ stats_resp.asked /\ stats_resp.vm_count = 2
    /\ \E k \in DOMAIN vm_id_to_attackers : vm_id_to_attackers[k] = {}
    /\ \E k \in DOMAIN vm_id_to_attackers : vm_id_to_attackers[k] # {}

\* C6: after the before-first-request load has run on the document that
\* __main__ already loaded, the index equals the index after the first build.
C6_RebuildIdempotent ==
    got_first_request => vm_id_to_attackers = init_index

\* C6 witness: the second build has finished on an index with attackers
C6_Witness ==
    /\ got_first_request /\ ld.who = NoLoader
    /\ \E k \in DOMAIN vm_id_to_attackers : vm_id_to_attackers[k] # {}

\* C7: a document that is unreadable or structurally invalid ends the load
\* with EnvironmentJsonFileError and exit(), with no query answered and the
\* index not partially built.
C7_ConfigLoadError ==
    (~IsWellFormed(doc) /\ ld.who = NoLoader) =>
        /\ error = "EnvironmentJsonFileError"
        /\ proc = "exited"
        /\ vm_id_to_attackers = EmptyMap
        /\ ~last.asked

\* C8: attack reads the index only when no build is running and the index
\* holds the full attacker set of every vm, and every found answer is the
\* full attacker set of the vm asked about.
C8_BuildBeforeAnswer ==
    /\ \A t \in Threads :
          th[t].pc = "call" =>
              /\ ld.who = NoLoader
              /\ DOMAIN vm_id_to_attackers = VmIds(doc)
              /\ \A i \in 1..Len(doc.vms) :
                    vm_id_to_attackers[doc.vms[i].vm_id]
                        = ExpectedAttackers(doc, doc.vms[i])
    /\ (last.asked /\ last.found) =>
          \E i \in 1..Len(doc.vms) :
              /\ doc.vms[i].vm_id = last.vm_id
              /\ Range(last.threatening_vms) = ExpectedAttackers(doc, doc.vms[i])

\* C8 witness: a second request arrived while the first was waiting on the
\* hook, and both are now in attack's lookup
C8_Witness ==
    /\ got_first_request
    /\ \A t \in Threads : th[t].pc = "call"
    /\ \E k \in DOMAIN vm_id_to_attackers : vm_id_to_attackers[k] # {}

\* C9: once the server serves, no step changes vm_id_to_attackers.
C9_IndexFrozen ==
    [][proc = "serving" => vm_id_to_attackers' = vm_id_to_attackers]_vars

\* C10: whenever a stats request is about to read the counters,
\* total_method_time is the sum of the times of the calls counted in
\* method_count.
C10_RecordAtomic ==
    (\E t \in Threads : th[t].pc = "s41") =>
        get_method_stats.total_method_time = counted_time

====
